---- MODULE Spec2Model ----
(***************************************************************************)
(* GeminiPreprocessor (Voyagent/tools/gemini_preprocessor.py).             *)
(*                                                                         *)
(* Text is modelled character by character: a Python str is a TLA+ string, *)
(* read with Len, SubSeq and \o.  A JSON value is a tagged record          *)
(* ([str |-> s], [null |-> TRUE], [list |-> <<...>>], [obj |-> f]); a      *)
(* Python dict is a function from its keys to such values.                 *)
(***************************************************************************)
EXTENDS Integers, Sequences, FiniteSets, TLC

VARIABLES op, query, tool_name, outcome, ret

vars == <<op, query, tool_name, outcome, ret>>

----------------------------------------------------------------------------
(* Python str operations *)

\* F applied to the value of e, with e evaluated once
Bind(e, F(_)) == CHOOSE y \in {F(x) : x \in {e}} : TRUE

Min(S) == CHOOSE x \in S : \A y \in S : x <= y

Max(S) == CHOOSE x \in S : \A y \in S : x >= y

\* s[i] with a 1-based index, "" past either end
CharAt(s, i) == IF i >= 1 /\ i <= Len(s) THEN SubSeq(s, i, i) ELSE ""

\* str.find(sub): the 0-based index of the first occurrence, -1 if none
find(s, sub) ==
    LET hits == {i \in 0..(Len(s) - Len(sub)) : SubSeq(s, i + 1, i + Len(sub)) = sub}
    IN  IF hits = {} THEN -1 ELSE Min(hits)

\* str.rfind(sub): the 0-based index of the last occurrence, -1 if none
rfind(s, sub) ==
    LET hits == {i \in 0..(Len(s) - Len(sub)) : SubSeq(s, i + 1, i + Len(sub)) = sub}
    IN  IF hits = {} THEN -1 ELSE Max(hits)

\* a slice bound as Python reads it: a negative one counts from the end,
\* and both are clipped to the string
SliceIndex(s, i) == IF i < 0 THEN Max({i + Len(s), 0}) ELSE Min({i, Len(s)})

\* s[a:b]
Slice(s, a, b) ==
    IF SliceIndex(s, a) >= SliceIndex(s, b) THEN ""
    ELSE SubSeq(s, SliceIndex(s, a) + 1, SliceIndex(s, b))

\* sub in s
Contains(sub, s) == find(s, sub) >= 0

UpperToLower ==
    [c \in {"A", "B", "C", "D", "E", "F", "G", "H", "I", "J", "K", "L", "M",
            "N", "O", "P", "Q", "R", "S", "T", "U", "V", "W", "X", "Y", "Z"} |->
        CASE c = "A" -> "a" [] c = "B" -> "b" [] c = "C" -> "c" [] c = "D" -> "d"
          [] c = "E" -> "e" [] c = "F" -> "f" [] c = "G" -> "g" [] c = "H" -> "h"
          [] c = "I" -> "i" [] c = "J" -> "j" [] c = "K" -> "k" [] c = "L" -> "l"
          [] c = "M" -> "m" [] c = "N" -> "n" [] c = "O" -> "o" [] c = "P" -> "p"
          [] c = "Q" -> "q" [] c = "R" -> "r" [] c = "S" -> "s" [] c = "T" -> "t"
          [] c = "U" -> "u" [] c = "V" -> "v" [] c = "W" -> "w" [] c = "X" -> "x"
          [] c = "Y" -> "y" [] c = "Z" -> "z"]

LowerChar(c) == IF c \in DOMAIN UpperToLower THEN UpperToLower[c] ELSE c

RECURSIVE LowerFrom(_, _)
LowerFrom(s, i) ==
    IF i > Len(s) THEN "" ELSE LowerChar(CharAt(s, i)) \o LowerFrom(s, i + 1)

\* str.lower()
lower(s) == LowerFrom(s, 1)

----------------------------------------------------------------------------
(* JSON values and json.loads *)

Str(s) == [str |-> s]

Null == [null |-> TRUE]

List(items) == [list |-> items]

Obj(f) == [obj |-> f]

IsStr(v) == DOMAIN v = {"str"}

IsObj(v) == DOMAIN v = {"obj"}

EmptyDict == [k \in {} |-> Null]

\* d[k] = v on a dict
DictSet(d, k, v) == [x \in DOMAIN d \cup {k} |-> IF x = k THEN v ELSE d[x]]

\* d.get(k, default)
DictGet(d, k, default) == IF k \in DOMAIN d THEN d[k] ELSE default

Whitespace == {" ", "\n", "\t", "\r"}

RECURSIVE SkipWs(_, _)
\* the first position at or after i that holds no whitespace
SkipWs(s, i) == IF CharAt(s, i) \in Whitespace THEN SkipWs(s, i + 1) ELSE i

ParseFail == [ok |-> FALSE, val |-> Null, pos |-> 0]

ParseOk(v, p) == [ok |-> TRUE, val |-> v, pos |-> p]

\* a string literal at position i (no escape sequences)
ParseString(s, i) ==
    Bind({j \in (i + 1)..Len(s) : SubSeq(s, j, j) = "\""}, LAMBDA closes :
        IF CharAt(s, i) # "\"" \/ closes = {} THEN ParseFail
        ELSE Bind(Min(closes), LAMBDA j : ParseOk(Str(SubSeq(s, i + 1, j - 1)), j + 1)))

RECURSIVE ParseValue(_, _), ParseMembers(_, _, _), ParseItems(_, _, _)

\* the members of an object, the first of them at position i; a repeated
\* key keeps its last value
ParseMembers(s, i, acc) ==
    Bind(ParseString(s, i), LAMBDA k :
        IF ~k.ok THEN ParseFail
        ELSE Bind(SkipWs(s, k.pos), LAMBDA c :
            IF CharAt(s, c) # ":" THEN ParseFail
            ELSE Bind(ParseValue(s, SkipWs(s, c + 1)), LAMBDA v :
                IF ~v.ok THEN ParseFail
                ELSE Bind(SkipWs(s, v.pos), LAMBDA e :
                    Bind(DictSet(acc, k.val.str, v.val), LAMBDA d :
                        IF CharAt(s, e) = "}" THEN ParseOk(Obj(d), e + 1)
                        ELSE IF CharAt(s, e) = ","
                        THEN Bind(SkipWs(s, e + 1), LAMBDA n : ParseMembers(s, n, d))
                        ELSE ParseFail)))))

\* the items of an array, the first of them at position i
ParseItems(s, i, acc) ==
    Bind(ParseValue(s, i), LAMBDA v :
        IF ~v.ok THEN ParseFail
        ELSE Bind(SkipWs(s, v.pos), LAMBDA e :
            Bind(Append(acc, v.val), LAMBDA items :
                IF CharAt(s, e) = "]" THEN ParseOk(List(items), e + 1)
                ELSE IF CharAt(s, e) = ","
                THEN Bind(SkipWs(s, e + 1), LAMBDA n : ParseItems(s, n, items))
                ELSE ParseFail)))

\* a JSON value at position i: an object, an array, a string or null
ParseValue(s, i) ==
    Bind(CharAt(s, i), LAMBDA c :
        Bind(SkipWs(s, i + 1), LAMBDA n :
            IF c = "{"
            THEN IF CharAt(s, n) = "}" THEN ParseOk(Obj(EmptyDict), n + 1)
                 ELSE ParseMembers(s, n, EmptyDict)
            ELSE IF c = "["
            THEN IF CharAt(s, n) = "]" THEN ParseOk(List(<<>>), n + 1)
                 ELSE ParseItems(s, n, <<>>)
            ELSE IF c = "\"" THEN ParseString(s, i)
            ELSE IF SubSeq(s, i, Min({i + 3, Len(s)})) = "null" THEN ParseOk(Null, i + 4)
            ELSE ParseFail))

\* json.loads(s): the value, or a failure (JSONDecodeError) when s is not
\* one JSON document
json_loads(s) ==
    Bind(ParseValue(s, SkipWs(s, 1)), LAMBDA v :
        IF v.ok /\ SkipWs(s, v.pos) = Len(s) + 1 THEN v ELSE ParseFail)

----------------------------------------------------------------------------
(* GeminiPreprocessor.preprocess_query *)

\* type(v).__name__
TypeName(v) ==
    CASE DOMAIN v = {"str"} -> "str"
      [] DOMAIN v = {"null"} -> "NoneType"
      [] DOMAIN v = {"list"} -> "list"
      [] DOMAIN v = {"obj"} -> "dict"

\* str(e) of the AttributeError raised by v.attr
AttributeErrorMessage(v, attr) ==
    "'" \o TypeName(v) \o "' object has no attribute '" \o attr \o "'"

\* str(e) of a json.JSONDecodeError; the position the real message carries
\* is left out
JSONDecodeErrorMessage == "Expecting value"

ExtractionError == "Could not extract structured data"

\* the outcome of a step of the try block: an exception or a value
Raise(msg) == [exc |-> msg]

Return(v) == [value |-> v]

Raised(r) == DOMAIN r = {"exc"}

\* ExtractJson with "or" for the "and" of line 118
ExtractJsonEitherBrace(result) ==
    Bind(find(result, "{"), LAMBDA json_start :
        Bind(rfind(result, "}") + 1, LAMBDA json_end :
            IF json_start >= 0 \/ json_end > 0
            THEN Bind(Slice(result, json_start, json_end), LAMBDA json_str :
                    Bind(json_loads(json_str), LAMBDA parsed :
                        IF parsed.ok THEN Return(parsed.val.obj)
                        ELSE Raise(JSONDecodeErrorMessage)))
            ELSE Return([k \in {"error"} |-> Str(ExtractionError)])))

\* ExtractJson with the JSONDecodeError of line 120 caught on the spot and
\* turned into the error marker
ExtractJsonMarkerOnBadJson(result) ==
    Bind(find(result, "{"), LAMBDA json_start :
        Bind(rfind(result, "}") + 1, LAMBDA json_end :
            IF json_start >= 0 /\ json_end > 0
            THEN Bind(Slice(result, json_start, json_end), LAMBDA json_str :
                    Bind(json_loads(json_str), LAMBDA parsed :
                        IF parsed.ok THEN Return(parsed.val.obj)
                        ELSE Return([k \in {"error"} |-> Str(ExtractionError)])))
            ELSE Return([k \in {"error"} |-> Str(ExtractionError)])))

\* ExtractJson with find for the rfind of line 117: the text ends at the
\* first "}"
ExtractJsonToFirstClose(result) ==
    Bind(find(result, "{"), LAMBDA json_start :
        Bind(find(result, "}") + 1, LAMBDA json_end :
            IF json_start >= 0 /\ json_end > 0
            THEN Bind(Slice(result, json_start, json_end), LAMBDA json_str :
                    Bind(json_loads(json_str), LAMBDA parsed :
                        IF parsed.ok THEN Return(parsed.val.obj)
                        ELSE Raise(JSONDecodeErrorMessage)))
            ELSE Return([k \in {"error"} |-> Str(ExtractionError)])))

\* lines 116-123: the dict parsed from the text between the first "{" and
\* the last "}", the error marker when either is missing
ExtractJson(result) ==
    Bind(find(result, "{"), LAMBDA json_start :
        Bind(rfind(result, "}") + 1, LAMBDA json_end :
            IF json_start >= 0 /\ json_end > 0
            THEN Bind(Slice(result, json_start, json_end), LAMBDA json_str :
                    Bind(json_loads(json_str), LAMBDA parsed :
                        IF parsed.ok THEN Return(parsed.val.obj)
                        ELSE Raise(JSONDecodeErrorMessage)))
            ELSE Return([k \in {"error"} |-> Str(ExtractionError)])))

\* line 131; "and" binds tighter than "or"
IsComparisonQuery(q) ==
    Bind(lower(q), LAMBDA ql :
        \/ Contains("vs", ql)
        \/ Contains("versus", ql)
        \/ Contains("or", ql) /\ (Contains("fly", ql) \/ Contains("drive", ql)))

\* lines 134-143
ScanTransportModes(q) ==
    Bind(lower(q), LAMBDA ql :
        (IF Contains("fly", ql) \/ Contains("flight", ql) THEN <<Str("flight")>> ELSE <<>>)
        \o (IF Contains("drive", ql) \/ Contains("car", ql) THEN <<Str("drive")>> ELSE <<>>)
        \o (IF Contains("train", ql) THEN <<Str("train")>> ELSE <<>>)
        \o (IF Contains("bus", ql) THEN <<Str("bus")>> ELSE <<>>))

\* ComparisonOverride without the test of line 132
ComparisonOverrideAlways(structured_data, q) ==
    IF IsComparisonQuery(q)
    THEN DictSet(DictSet(structured_data, "query_type", Str("transport_comparison")),
                 "transport_modes", List(ScanTransportModes(q)))
    ELSE structured_data

\* lines 131-143
ComparisonOverride(structured_data, q) ==
    IF IsComparisonQuery(q)
    THEN IF DictGet(structured_data, "query_type", Null) # Str("transport_comparison")
         THEN DictSet(DictSet(structured_data, "query_type", Str("transport_comparison")),
                      "transport_modes", List(ScanTransportModes(q)))
         ELSE structured_data
    ELSE structured_data

\* AirportCode without the .lower() of lines 146-153
AirportCodeCaseSensitive(structured_data, key) ==
    Bind(DictGet(structured_data, key, Str("")), LAMBDA city :
        IF ~IsStr(city) THEN Raise(AttributeErrorMessage(city, "lower"))
        ELSE IF city.str \in {"sf", "san francisco"}
        THEN Return(DictSet(structured_data, key \o "_code", Str("SFO")))
        ELSE IF city.str \in {"fresno", "fres"}
        THEN Return(DictSet(structured_data, key \o "_code", Str("FAT")))
        ELSE Return(structured_data))

\* lines 146-149 (key = "origin") and 151-154 (key = "destination"): both
\* chains map the same names to the same codes
AirportCode(structured_data, key) ==
    Bind(DictGet(structured_data, key, Str("")), LAMBDA city :
        IF ~IsStr(city) THEN Raise(AttributeErrorMessage(city, "lower"))
        ELSE IF lower(city.str) \in {"sf", "san francisco"}
        THEN Return(DictSet(structured_data, key \o "_code", Str("SFO")))
        ELSE IF lower(city.str) \in {"fresno", "fres"}
        THEN Return(DictSet(structured_data, key \o "_code", Str("FAT")))
        ELSE Return(structured_data))

\* lines 158-164
ErrorResult(msg, q) ==
    [k \in {"error", "original_query", "query_type"} |->
        CASE k = "error" -> Str(msg)
          [] k = "original_query" -> Str(q)
          [] k = "query_type" -> Str("general")]

\* TryBlock without line 128
TryBlockWithoutOriginalQuery(q, remote) ==
    IF Raised(remote) THEN remote
    ELSE Bind(ExtractJson(remote.value), LAMBDA extracted :
            IF Raised(extracted) THEN extracted
            ELSE Bind(ComparisonOverride(extracted.value, q), LAMBDA overridden :
                    Bind(AirportCode(overridden, "origin"), LAMBDA with_origin :
                        IF Raised(with_origin) THEN with_origin
                        ELSE AirportCode(with_origin.value, "destination"))))

\* lines 111-156: the try block, given what self.llm.invoke(...) did
TryBlock(q, remote) ==
    IF Raised(remote) THEN remote
    ELSE Bind(ExtractJson(remote.value), LAMBDA extracted :
            IF Raised(extracted) THEN extracted
            ELSE Bind(DictSet(extracted.value, "original_query", Str(q)), LAMBDA with_query :
                    Bind(ComparisonOverride(with_query, q), LAMBDA overridden :
                        Bind(AirportCode(overridden, "origin"), LAMBDA with_origin :
                            IF Raised(with_origin) THEN with_origin
                            ELSE AirportCode(with_origin.value, "destination")))))

\* preprocess_query with an except clause that writes the three keys into
\* the dict parsed so far
preprocess_query_keeping_parsed(q, remote) ==
    Bind(TryBlock(q, remote), LAMBDA r :
        IF ~Raised(r) THEN r
        ELSE IF Raised(remote) THEN Return(ErrorResult(r.exc, q))
        ELSE Bind(ExtractJson(remote.value), LAMBDA extracted :
                IF Raised(extracted) THEN Return(ErrorResult(r.exc, q))
                ELSE Return([k \in DOMAIN extracted.value \cup DOMAIN ErrorResult(r.exc, q) |->
                                IF k \in DOMAIN ErrorResult(r.exc, q)
                                THEN ErrorResult(r.exc, q)[k]
                                ELSE extracted.value[k]])))

\* lines 35-164
preprocess_query(q, remote) ==
    Bind(TryBlock(q, remote), LAMBDA r :
        IF Raised(r) THEN Return(ErrorResult(r.exc, q)) ELSE r)

\* lines 166-184
extract_travel_info(q, remote) ==
    Bind(preprocess_query(q, remote).value, LAMBDA structured :
        LET origin == DictGet(structured, "origin", Str(""))
            destination == DictGet(structured, "destination", Str(""))
            date_info == DictGet(structured, "date_info", Obj(EmptyDict))
        IN  IF ~IsObj(date_info) THEN Raise(AttributeErrorMessage(date_info, "get"))
            ELSE Return(<<origin, destination,
                          DictGet(date_info.obj, "start_date", Str(""))>>))

\* get_optimized_query with the structured query kept for the flight tool
get_optimized_query_for_flights(q, tool, remote) ==
    Bind(preprocess_query(q, remote).value, LAMBDA structured :
        IF "structured_query" \in DOMAIN structured /\ tool = "apify_flight"
        THEN Return(structured["structured_query"])
        ELSE Return(Str(q)))

\* lines 186-203
get_optimized_query(q, tool, remote) ==
    Bind(preprocess_query(q, remote).value, LAMBDA structured :
        IF "structured_query" \in DOMAIN structured
        THEN Return(structured["structured_query"])
        ELSE Return(Str(q)))

----------------------------------------------------------------------------
(* The inputs: the caller's query and what the completion service does *)

MaxPhrases == 1

MaxFields == 2

\* what a query is made of: "or" with "drive" and "fly"; "vs" in capitals;
\* "versus" (which holds no "vs"); "or" with neither "fly" nor "drive";
\* none of the keywords
Phrases ==
    {"Should I drive or fly", "train VS bus", "car versus flight", "flight or car",
     "to Fresno next weekend"}

RECURSIVE Join(_)
Join(ws) ==
    IF ws = <<>> THEN ""
    ELSE IF Len(ws) = 1 THEN ws[1]
    ELSE ws[1] \o " " \o Join(Tail(ws))

\* the queries: up to MaxPhrases phrases, separated by blanks
Queries == {Join(ws) : ws \in UNION {[1..n -> Phrases] : n \in 0..MaxPhrases}}

ToolNames == {"apify_flight", "apify_poi"}

\* the fields a reply may carry: the schema of the system prompt, and
\* values and keys outside it
Members ==
    << <<"query_type", Str("flight")>>,
       <<"query_type", Str("transport_comparison")>>,
       <<"origin", Str("SF")>>,
       <<"origin", Null>>,
       <<"destination", Str("Fresno")>>,
       <<"destination", Str("Yosemite")>>,
       <<"date_info", Obj([k \in {"start_date"} |-> Str("2025-05-10")])>>,
       <<"date_info", Null>>,
       <<"structured_query", Str("flights to Yosemite")>>,
       <<"transport_modes", List(<<Str("drive"), Str("flight")>>)>>,
       <<"origin_code", Str("LAX")>>,
       <<"original_query", Str("an earlier question")>> >>

\* the replies' objects: up to MaxFields members with distinct keys, each
\* a set of indices into Members
Objects ==
    {S \in SUBSET (1..Len(Members)) :
        /\ Cardinality(S) <= MaxFields
        /\ \A i, j \in S : i # j => Members[i][1] # Members[j][1]}

\* the dict an object stands for
ObjectOf(S) ==
    [k \in {Members[i][1] : i \in S} |->
        Members[CHOOSE i \in S : Members[i][1] = k][2]]

RECURSIVE RenderValue(_), RenderItems(_), RenderDict(_)

\* the JSON text of a value, as json.dumps writes it
RenderValue(v) ==
    CASE DOMAIN v = {"str"} -> "\"" \o v.str \o "\""
      [] DOMAIN v = {"null"} -> "null"
      [] DOMAIN v = {"list"} -> "[" \o RenderItems(v.list) \o "]"
      [] DOMAIN v = {"obj"} -> "{" \o RenderDict(v.obj) \o "}"

RenderItems(items) ==
    IF items = <<>> THEN ""
    ELSE IF Len(items) = 1 THEN RenderValue(items[1])
    ELSE RenderValue(items[1]) \o ", " \o RenderItems(Tail(items))

RenderDict(d) ==
    IF DOMAIN d = {} THEN ""
    ELSE LET k == CHOOSE x \in DOMAIN d : TRUE
             rest == [x \in DOMAIN d \ {k} |-> d[x]]
         IN  "\"" \o k \o "\": " \o RenderValue(d[k])
                 \o (IF DOMAIN rest = {} THEN "" ELSE ", " \o RenderDict(rest))

RECURSIVE RenderMembers(_)
RenderMembers(S) ==
    IF S = {} THEN ""
    ELSE LET i == Min(S)
         IN  "\"" \o Members[i][1] \o "\": " \o RenderValue(Members[i][2])
                 \o (IF S \ {i} = {} THEN "" ELSE ", " \o RenderMembers(S \ {i}))

\* what the prose of a reply surrounds: an object of Members
Embedded == {{3, 9}}

\* the JSON text of each object
TextOf == [S \in Objects \cup Embedded |-> "{" \o RenderMembers(S) \o "}"]

\* prose before and after the object, with and without braces of its own
Leads == {"", "Here is the result: ", "Fields go in {braces}: ", ":-} "}

Trails == {"", " Let me know if you need more.", " (see {docs})", " :-{"}

\* between the prose: nothing, an object, an object cut short
Bodies == {""} \cup {TextOf[S] : S \in Embedded} \cup {"{\"origin\": \"SF\""}

Responses ==
    {TextOf[S] : S \in Objects}
        \cup {l \o b \o t : l \in Leads, b \in Bodies, t \in Trails}

RemoteErrors == {"503 The service is currently unavailable."}

\* self.llm.invoke(messages).content: a text, or an exception
Outcomes == {Return(r) : r \in Responses} \cup {Raise(e) : e \in RemoteErrors}

----------------------------------------------------------------------------
(* The preprocessor keeps nothing between calls: the llm handle is set     *)
(* once, in __init__, and no method writes to self.  A behaviour is        *)
(* therefore one call: the caller's query and what the completion service  *)
(* will do (outcome) are drawn at the start, op names the method that ran  *)
(* on them, tool_name is get_optimized_query's second argument, and ret is *)
(* what the caller gets, a value or an exception.                          *)

NoCall == [none |-> TRUE]

Init ==
    /\ op = "none"
    /\ query \in Queries
    /\ outcome \in Outcomes
    /\ tool_name = ""
    /\ ret = NoCall

PreprocessQuery ==
    /\ op = "none"
    /\ op' = "preprocess_query"
    /\ ret' = preprocess_query(query, outcome)
    /\ UNCHANGED <<query, tool_name, outcome>>

ExtractTravelInfo ==
    /\ op = "none"
    /\ op' = "extract_travel_info"
    /\ ret' = extract_travel_info(query, outcome)
    /\ UNCHANGED <<query, tool_name, outcome>>

GetOptimizedQuery ==
    /\ op = "none"
    /\ op' = "get_optimized_query"
    /\ \E tool \in ToolNames :
        /\ tool_name' = tool
        /\ ret' = get_optimized_query(query, tool, outcome)
    /\ UNCHANGED <<query, outcome>>

Next == PreprocessQuery \/ ExtractTravelInfo \/ GetOptimizedQuery

Spec == Init /\ [][Next]_vars

----------------------------------------------------------------------------
(* The vocabulary of the properties, stated on the reply's characters and  *)
(* on the tables of the specification rather than through the operators    *)
(* that model the code.                                                    *)

HasChar(s, c) == \E i \in 1..Len(s) : SubSeq(s, i, i) = c

\* the text from the first "{" to the last "}" of s, both included; empty
\* when the last "}" comes before the first "{"
Braced(s) ==
    LET opens == {i \in 1..Len(s) : SubSeq(s, i, i) = "{"}
        closes == {i \in 1..Len(s) : SubSeq(s, i, i) = "}"}
    IN  IF Min(opens) > Max(closes) THEN "" ELSE SubSeq(s, Min(opens), Max(closes))

\* the service answered with a text
Replied == op # "none" /\ ~Raised(outcome)

BothBraces == Replied /\ HasChar(outcome.value, "{") /\ HasChar(outcome.value, "}")

\* what the text between the braces of the reply parses to
BracedJson == json_loads(Braced(outcome.value))

\* the reply holds both braces and the text between them is not JSON
MalformedReply == BothBraces /\ ~BracedJson.ok

\* the reply holds both braces and the text between them is a JSON object
ParsesToObject == BothBraces /\ BracedJson.ok

ParsedObject == BracedJson.val.obj

\* the object whose JSON text the reply is, for the replies that are one
ObjectWithText == [t \in {TextOf[S] : S \in Objects} |-> CHOOSE S \in Objects : TextOf[S] = t]

\* the replies that are prose, an object, prose
ProseReplies ==
    {[text |-> l \o TextOf[S] \o t, lead |-> l, trail |-> t, object |-> S] :
        l \in Leads, t \in Trails, S \in Embedded}

\* the mapping of the except clause
ErrorMapping(msg) ==
    [k \in {"error", "original_query", "query_type"} |->
        IF k = "error" THEN Str(msg)
        ELSE IF k = "original_query" THEN Str(query) ELSE Str("general")]

Mentions(q, words) == \E w \in words : Contains(w, lower(q))

AsksToCompare(q) ==
    \/ Mentions(q, {"vs", "versus"})
    \/ Mentions(q, {"or"}) /\ Mentions(q, {"fly", "drive"})

ModeKeywords ==
    [m \in {"flight", "drive", "train", "bus"} |->
        CASE m = "flight" -> {"fly", "flight"}
          [] m = "drive" -> {"drive", "car"}
          [] m = "train" -> {"train"}
          [] m = "bus" -> {"bus"}]

\* the modes the query names, in the order flight, drive, train, bus
KeywordScan(q) ==
    LET named == SelectSeq(<<"flight", "drive", "train", "bus">>,
                           LAMBDA m : Mentions(q, ModeKeywords[m]))
    IN  [i \in 1..Len(named) |-> Str(named[i])]

CityCodes ==
    [c \in {"sf", "san francisco", "fresno", "fres"} |->
        IF c \in {"sf", "san francisco"} THEN "SFO" ELSE "FAT"]

\* the reply's value under key is a string naming one of the four cities
Recognised(d, key) ==
    key \in DOMAIN d /\ IsStr(d[key]) /\ lower(d[key].str) \in DOMAIN CityCodes

\* the reply's value under key is there and is not a string
NotAString(d, key) == key \in DOMAIN d /\ ~IsStr(d[key])

\* the first of origin and destination that is not a string
FirstNotAString(d) == IF NotAString(d, "origin") THEN d["origin"] ELSE d["destination"]

\* ret[key] is what the reply d itself gave under key, if anything
AsReplied(d, key) ==
    /\ key \in DOMAIN ret.value <=> key \in DOMAIN d
    /\ key \in DOMAIN d => ret.value[key] = d[key]

----------------------------------------------------------------------------
(* C1 *)

\* C1: whatever the query and whatever the service does, preprocess_query
\* returns a mapping with original_query equal to the query and a
\* query_type that is there and not empty.
C1_AlwaysQueryType ==
    op = "preprocess_query" =>
        /\ ~Raised(ret)
        /\ DictGet(ret.value, "original_query", Null) = Str(query)
        /\ "query_type" \in DOMAIN ret.value
        /\ ret.value["query_type"] \notin {Null, Str("")}

----------------------------------------------------------------------------
(* C2 *)

\* C2: when the reply holds no "{", with or without a "}", the mapping
\* returned has error "Could not extract structured data" and
\* original_query equal to the query.
C2_NoOpenBraceGivesMarker ==
    op = "preprocess_query" /\ Replied /\ ~HasChar(outcome.value, "{") =>
        /\ ~Raised(ret)
        /\ DictGet(ret.value, "error", Null) = Str("Could not extract structured data")
        /\ DictGet(ret.value, "original_query", Null) = Str(query)

\* a reply with a "}" and no "{", on a comparison query
C2_Witness ==
    /\ op = "preprocess_query"
    /\ Replied
    /\ ~HasChar(outcome.value, "{")
    /\ HasChar(outcome.value, "}")
    /\ AsksToCompare(query)
    /\ DOMAIN ret.value = {"error", "original_query", "query_type", "transport_modes"}

----------------------------------------------------------------------------
(* C3 *)

\* C3 as stated: when the reply holds both braces and the text between the
\* first "{" and the last "}" is not JSON, error is the marker "Could not
\* extract structured data".
C3_MalformedGivesMarker ==
    op = "preprocess_query" /\ MalformedReply =>
        DictGet(ret.value, "error", Null) = Str("Could not extract structured data")

\* C3 as amended: in that case the mapping returned is the except clause's,
\* with error the JSON parser's message, which is not the marker.
C3_MalformedGivesParserMessage ==
    op = "preprocess_query" /\ MalformedReply =>
        /\ ret = Return(ErrorMapping(JSONDecodeErrorMessage))
        /\ ret.value["error"] # Str("Could not extract structured data")

\* a reply whose braces enclose text that is not JSON
C3_Witness ==
    /\ op = "preprocess_query"
    /\ MalformedReply
    /\ Braced(outcome.value) # ""
    /\ ret.value["error"] = Str(JSONDecodeErrorMessage)

----------------------------------------------------------------------------
(* C4 *)

\* C4: when the service call, the JSON parse or the airport-code step
\* raises, the mapping returned has exactly the keys error, original_query
\* and query_type, with the exception's message, the query and "general";
\* nothing of the dict parsed so far is in it.
C4_FailureGivesThreeKeys ==
    op = "preprocess_query" =>
        /\ Raised(outcome) => ret = Return(ErrorMapping(outcome.exc))
        /\ BothBraces =>
             LET parsed == BracedJson
                 d == parsed.val.obj
             IN  /\ ~parsed.ok => ret = Return(ErrorMapping(JSONDecodeErrorMessage))
                 /\ parsed.ok /\ (NotAString(d, "origin") \/ NotAString(d, "destination")) =>
                        ret = Return(ErrorMapping("'" \o TypeName(FirstNotAString(d))
                                                      \o "' object has no attribute 'lower'"))

\* the airport-code step raises on a null origin, after the comparison
\* override has set query_type and with a destination that has a code
C4_Witness ==
    /\ op = "preprocess_query"
    /\ AsksToCompare(query)
    /\ ParsesToObject
    /\ DOMAIN ParsedObject = {"origin", "destination"}
    /\ ParsedObject["origin"] = Null
    /\ ParsedObject["destination"] = Str("Fresno")
    /\ DOMAIN ret.value = {"error", "original_query", "query_type"}
    /\ ret.value["error"] = Str("'NoneType' object has no attribute 'lower'")

----------------------------------------------------------------------------
(* C5 *)

\* C5 as stated: on a comparison query and a reply that parses to an
\* object, query_type is "transport_comparison" and transport_modes is the
\* keyword scan of the query, whatever the reply held.
C5_AlwaysRescanned ==
    op = "preprocess_query" /\ AsksToCompare(query) /\ ParsesToObject =>
        /\ DictGet(ret.value, "query_type", Null) = Str("transport_comparison")
        /\ DictGet(ret.value, "transport_modes", Null) = List(KeywordScan(query))

\* C5 as amended: on a comparison query and a reply that parses to an
\* object whose origin and destination are strings or absent, query_type
\* is "transport_comparison"; transport_modes is the keyword scan when the
\* reply's query_type was anything else, and is left as the reply gave it
\* (absent if it gave none) when the reply's query_type was already
\* "transport_comparison".  With an origin or destination that is not a
\* string the except clause's mapping is returned, query_type "general".
C5_RescannedUnlessAlreadyComparison ==
    op = "preprocess_query" /\ BothBraces /\ AsksToCompare(query) =>
        LET parsed == BracedJson
            d == parsed.val.obj
        IN  parsed.ok =>
            IF NotAString(d, "origin") \/ NotAString(d, "destination")
            THEN DOMAIN ret.value = {"error", "original_query", "query_type"}
                 /\ ret.value["query_type"] = Str("general")
            ELSE /\ DictGet(ret.value, "query_type", Null) = Str("transport_comparison")
                 /\ IF DictGet(d, "query_type", Null) = Str("transport_comparison")
                    THEN AsReplied(d, "transport_modes")
                    ELSE DictGet(ret.value, "transport_modes", Null)
                             = List(KeywordScan(query))

\* the reply already says "transport_comparison" and lists drive before
\* flight, where the scan of the query gives flight before drive
C5_Witness ==
    /\ op = "preprocess_query"
    /\ KeywordScan(query) = <<Str("flight"), Str("drive")>>
    /\ ParsesToObject
    /\ DictGet(ParsedObject, "query_type", Null) = Str("transport_comparison")
    /\ DictGet(ret.value, "transport_modes", Null) = List(<<Str("drive"), Str("flight")>>)

----------------------------------------------------------------------------
(* C6 *)

\* C6 as stated: on a reply that parses to an object, origin_code is "SFO"
\* or "FAT" when the origin names one of the four cities, and there is no
\* origin_code at all for any other origin, an absent one included;
\* likewise destination_code.
C6_CodeOnlyFromCity ==
    op = "preprocess_query" /\ ParsesToObject =>
        LET d == ParsedObject
        IN  \A key \in {"origin", "destination"} :
                IF Recognised(d, key)
                THEN DictGet(ret.value, key \o "_code", Null)
                         = Str(CityCodes[lower(d[key].str)])
                ELSE (key \o "_code") \notin DOMAIN ret.value

\* C6 as amended: on a reply that parses to an object whose origin and
\* destination are strings or absent, origin_code is "SFO" or "FAT" when
\* the origin names one of the four cities and is otherwise whatever the
\* reply itself gave as origin_code (absent if it gave none); likewise
\* destination_code.  With an origin or destination that is not a string
\* the except clause's mapping is returned, which has neither code.
C6_CodeFromCityElseAsReplied ==
    op = "preprocess_query" /\ BothBraces =>
        LET parsed == BracedJson
            d == parsed.val.obj
        IN  parsed.ok =>
            IF NotAString(d, "origin") \/ NotAString(d, "destination")
            THEN DOMAIN ret.value = {"error", "original_query", "query_type"}
            ELSE \A key \in {"origin", "destination"} :
                    IF Recognised(d, key)
                    THEN DictGet(ret.value, key \o "_code", Null)
                             = Str(CityCodes[lower(d[key].str)])
                    ELSE AsReplied(d, key \o "_code")

\* origin "SF" gets SFO and destination "Fresno" gets FAT
C6_Witness ==
    /\ op = "preprocess_query"
    /\ ParsesToObject
    /\ DOMAIN ParsedObject = {"origin", "destination"}
    /\ ParsedObject["origin"] = Str("SF")
    /\ ParsedObject["destination"] = Str("Fresno")
    /\ DictGet(ret.value, "origin_code", Null) = Str("SFO")
    /\ DictGet(ret.value, "destination_code", Null) = Str("FAT")

----------------------------------------------------------------------------
(* C7 *)

\* C7 as stated: when the reply is exactly one JSON object, the mapping
\* returned is that object with original_query added and nothing else
\* changed.
C7_RoundTrip ==
    op = "preprocess_query" /\ Replied /\ outcome.value \in DOMAIN ObjectWithText =>
        LET d == ObjectOf(ObjectWithText[outcome.value])
        IN  ret = Return(DictSet(d, "original_query", Str(query)))

\* neither override applies: the query is no comparison query or the
\* object already says "transport_comparison", and origin and destination
\* are absent or strings that name none of the four cities
Untouched(d, q) ==
    /\ ~AsksToCompare(q) \/ DictGet(d, "query_type", Null) = Str("transport_comparison")
    /\ \A key \in {"origin", "destination"} :
        key \in DOMAIN d => IsStr(d[key]) /\ lower(d[key].str) \notin DOMAIN CityCodes

\* C7 as amended: when the reply is exactly one JSON object, the query is
\* no comparison query or the object's query_type is already
\* "transport_comparison", and the object's origin and destination are
\* each absent or a string that names none of the four cities, the mapping
\* returned is that object with original_query set to the query.
C7_RoundTripWhenUntouched ==
    op = "preprocess_query" /\ Replied /\ outcome.value \in DOMAIN ObjectWithText =>
        LET d == ObjectOf(ObjectWithText[outcome.value])
        IN  Untouched(d, query) => ret = Return(DictSet(d, "original_query", Str(query)))

\* an object with a nested date_info and a destination without a code, on
\* a query that is no comparison query
C7_Witness ==
    /\ op = "preprocess_query"
    /\ Replied
    /\ query = "flight or car"
    /\ outcome.value \in DOMAIN ObjectWithText
    /\ LET d == ObjectOf(ObjectWithText[outcome.value])
       IN  /\ d = [k \in {"destination", "date_info"} |->
                     IF k = "destination" THEN Str("Yosemite")
                     ELSE Obj([x \in {"start_date"} |-> Str("2025-05-10")])]
           /\ ret = Return(DictSet(d, "original_query", Str(query)))

----------------------------------------------------------------------------
(* C8 *)

\* C8 as stated: when the reply is prose, one JSON object, prose, what is
\* parsed is that object, and the mapping returned is the one the object
\* alone would give.
C8_ProseNeverReachesData ==
    op = "preprocess_query" /\ Replied =>
        \A r \in ProseReplies :
            outcome.value = r.text =>
                /\ ExtractJson(outcome.value) = Return(ObjectOf(r.object))
                /\ ret = preprocess_query(query, Return(TextOf[r.object]))

\* C8 as amended: the same, when the prose before the object holds no "{"
\* and the prose after it holds no "}".
C8_ProseWithoutItsOwnBracesIsDropped ==
    op = "preprocess_query" /\ Replied =>
        \A r \in ProseReplies :
            outcome.value = r.text /\ ~HasChar(r.lead, "{") /\ ~HasChar(r.trail, "}") =>
                /\ ExtractJson(outcome.value) = Return(ObjectOf(r.object))
                /\ ret = preprocess_query(query, Return(TextOf[r.object]))

\* prose with a "}" before the object and a "{" after it
C8_Witness ==
    /\ op = "preprocess_query"
    /\ Replied
    /\ \E S \in Embedded :
        /\ outcome.value = ":-} " \o TextOf[S] \o " :-{"
        /\ ret.value = DictSet(DictSet(ObjectOf(S), "original_query", Str(query)),
                               "origin_code", Str("SFO"))

----------------------------------------------------------------------------
(* C9 *)

\* C9: get_optimized_query returns the structured_query of
\* preprocess_query's mapping when that key is there and the query itself
\* otherwise, so on every failure; the tool name changes nothing.
C9_StructuredQueryElseQuery ==
    op = "get_optimized_query" =>
        /\ ~Raised(ret)
        /\ LET structured == preprocess_query(query, outcome).value
           IN  /\ ret.value = IF "structured_query" \in DOMAIN structured
                               THEN structured["structured_query"]
                               ELSE Str(query)
               /\ "error" \in DOMAIN structured => ret.value = Str(query)

\* the structured query comes back for a tool other than the flight tool
C9_Witness ==
    /\ op = "get_optimized_query"
    /\ tool_name = "apify_poi"
    /\ query = "Should I drive or fly"
    /\ ParsesToObject
    /\ ret = Return(Str("flights to Yosemite"))

----------------------------------------------------------------------------
(* C10 *)

\* C10: whatever the service does, a date_info that is null or no mapping
\* included, extract_travel_info does not raise and returns origin,
\* destination and date_info.start_date of preprocess_query's mapping,
\* each "" when absent.
C10_NeverRaises ==
    op = "extract_travel_info" =>
        /\ ~Raised(ret)
        /\ LET structured == preprocess_query(query, outcome).value
               date_info == DictGet(structured, "date_info", Null)
           IN  ret.value = << DictGet(structured, "origin", Str("")),
                              DictGet(structured, "destination", Str("")),
                              IF IsObj(date_info)
                              THEN DictGet(date_info.obj, "start_date", Str(""))
                              ELSE Str("") >>

====
